---- MODULE Spec2Model ----
(***************************************************************************)
(* Evrlink web client: the wallet session (localStorage keys `token` and   *)
(* `walletAddress`, the WalletProvider React state, the wallet event       *)
(* listeners), the retrying request client and the domain API facade.      *)
(***************************************************************************)
EXTENDS Integers, Sequences, FiniteSets, TLC

(***************************************************************************)
(* Bounds of the model.                                                    *)
(***************************************************************************)
\* number of distinct wallet addresses the environment can supply
NumAddr == 2

AddrPool == <<"0xA", "0xB", "0xC", "0xD">>
Addr == {AddrPool[i] : i \in 1..NumAddr}

(***************************************************************************)
(* JavaScript values.  null stands for null/undefined; every stored value  *)
(* is a string.                                                            *)
(***************************************************************************)
null == "<null>"

\* JS truthiness of a string-or-null value
Truthy(v) == v # null /\ v # ""

(***************************************************************************)
(* localStorage: the two session keys.                                     *)
(***************************************************************************)
Keys == {"token", "walletAddress"}

getItem(store, k) == store[k]

setItem(store, k, v) == [store EXCEPT ![k] = v]

removeItem(store, k) == [store EXCEPT ![k] = null]

EmptyStorage == [k \in Keys |-> null]

VARIABLES
  ls,         \* localStorage (shared by every module of the page)
  address,    \* WalletProvider's React state `address`
  listeners,  \* wallet event listeners registered in the current page
  win,        \* the injected wallet surface (window.ethereum and friends)
  ret,        \* outcome of the last operation (what its caller observes)
  call,       \* the facade call in progress: operation, revision, argument, phase
  fw,         \* its transport request: the fetchWithRetry (or fetch) in progress
  env,        \* what the facade call gave back to the UI
  hook,       \* a component using useUserData: its address, state and fetches
  tabs,       \* two tabs of the application writing the shared localStorage
  agent       \* a component using useAgent: its history, mode and pending reply

sessionVars == <<ls, address, listeners, win, ret>>

apiVars == <<call, fw, env>>

uiVars == <<hook, tabs, agent>>

vars ==
  <<ls, address, listeners, win, ret, call, fw, env, hook, tabs, agent>>

(***************************************************************************)
(* The injected wallet surface.                                            *)
(***************************************************************************)
Provider(mm, cb, name, id) ==
  [isMetaMask |-> mm, isCoinbaseWallet |-> cb, name |-> name, id |-> id]

MetaMaskProvider == Provider(TRUE, FALSE, "MetaMask", "metamask")
CoinbaseProvider == Provider(FALSE, TRUE, "CoinbaseWallet", "coinbase")
OtherProvider == Provider(FALSE, FALSE, "Other", "other")

\* window.ethereum: its own flags, and an optional `providers` array
Ethereum(mm, cb, hasProviders, providers) ==
  [isMetaMask |-> mm, isCoinbaseWallet |-> cb,
   hasProviders |-> hasProviders, providers |-> providers]

NoEthereum == Ethereum(FALSE, FALSE, FALSE, <<>>)

Window(hasEthereum, ethereum, cbExt, mmGlobal, cbGlobal) ==
  [hasEthereum |-> hasEthereum, ethereum |-> ethereum,
   coinbaseWalletExtension |-> cbExt, metamask |-> mmGlobal,
   coinbaseWallet |-> cbGlobal]

\* nothing injected at all
NoWallet == Window(FALSE, NoEthereum, FALSE, FALSE, FALSE)

\* the surfaces the session specification starts from
SessionWindows ==
  { NoWallet,
    Window(TRUE, Ethereum(TRUE, FALSE, FALSE, <<>>), FALSE, FALSE, FALSE),
    Window(TRUE, Ethereum(TRUE, TRUE, TRUE,
                          <<CoinbaseProvider, MetaMaskProvider>>),
           TRUE, FALSE, FALSE) }

(***************************************************************************)
(* What the caller of an operation observes.                               *)
(***************************************************************************)
\* op/arg: the operation and its argument; ok/value/error: what it returned or
\* threw; opened: the URL it opened in a new tab; reloaded: whether it called
\* window.location.reload(); changed: whether it altered localStorage
Result(op, arg, ok, value, error, opened, reloaded, changed) ==
  [op |-> op, arg |-> arg, ok |-> ok, value |-> value, error |-> error,
   opened |-> opened, reloaded |-> reloaded, changed |-> changed]

NoResult == Result("none", "", TRUE, "", "", "", FALSE, FALSE)

(***************************************************************************)
(* WalletProvider (src/contexts/WalletContext.tsx).                        *)
(***************************************************************************)
\* useState initialiser: `saved || null`
InitialAddress(store) ==
  IF Truthy(getItem(store, "walletAddress"))
  THEN getItem(store, "walletAddress") ELSE null

\* mutant: the provider starts disconnected whatever is stored
MountAddressForgets(store) == null

\* the mount effect: setAddress(savedAddress) when token and address are stored
MountAddress(store) ==
  IF Truthy(getItem(store, "token")) /\ Truthy(getItem(store, "walletAddress"))
  THEN getItem(store, "walletAddress")
  ELSE InitialAddress(store)

isConnected == Truthy(address)

getToken(store) == getItem(store, "token")

(***************************************************************************)
(* Session writes shared by the operations below.                          *)
(***************************************************************************)
\* WalletContext.connect, lines 57-62: the synthesized credential
Web3AuthToken(newAddress) == "web3auth_" \o newAddress

\* mutant: the credential is never written
ConnectStoreAddressOnly(store, newAddress) ==
  setItem(store, "walletAddress", newAddress)

\* WalletContext.connect, lines 61-62
ConnectStore(store, newAddress) ==
  setItem(setItem(store, "walletAddress", newAddress),
          "token", Web3AuthToken(newAddress))

\* mutant: the credential is left behind
ClearAddressOnly(store) == removeItem(store, "walletAddress")

\* removeItem('walletAddress'); removeItem('token')
ClearSession(store) == removeItem(removeItem(store, "walletAddress"), "token")

\* window.location.reload(): the page is rebuilt from localStorage, and the
\* listeners of the old page are gone
ReloadedAddress(store) == MountAddress(store)

(***************************************************************************)
(* WalletContext.connect / disconnect.                                     *)
(***************************************************************************)
\* values the UI passes to connect: an address or the empty string
ConnectInputs == Addr \cup {""}

\* `quota`: localStorage.setItem throws (storage full or disabled)
WalletContextConnect(newAddress, quota) ==
  /\ UNCHANGED apiVars
  /\ UNCHANGED uiVars
  /\ IF ~Truthy(newAddress)
     THEN /\ UNCHANGED <<ls, address>>
          /\ ret' = Result("connect", newAddress, FALSE, "",
                           "Invalid wallet address", "", FALSE, ls' # ls)
     ELSE IF quota
     THEN /\ address' = null
          /\ ls' = ClearSession(ls)
          /\ ret' = Result("connect", newAddress, FALSE, "",
                           "QuotaExceededError", "", FALSE, ls' # ls)
     ELSE /\ address' = newAddress
          /\ ls' = ConnectStore(ls, newAddress)
          /\ ret' = Result("connect", newAddress, TRUE, "", "", "", FALSE, ls' # ls)
  /\ UNCHANGED <<listeners, win>>

\* mutant: disconnect reloads the page
WalletContextDisconnectReloads ==
  /\ UNCHANGED apiVars
  /\ UNCHANGED uiVars
  /\ ls' = ClearSession(ls)
  /\ address' = ReloadedAddress(ls')
  /\ listeners' = {}
  /\ ret' = Result("disconnect", "", TRUE, "", "", "", TRUE, ls' # ls)
  /\ UNCHANGED win

WalletContextDisconnect ==
  /\ UNCHANGED apiVars
  /\ UNCHANGED uiVars
  /\ address' = null
  /\ ls' = ClearSession(ls)
  /\ ret' = Result("disconnect", "", TRUE, "", "", "", FALSE, ls' # ls)
  /\ UNCHANGED <<listeners, win>>

(***************************************************************************)
(* The wallet provider's answer to eth_requestAccounts.                    *)
(***************************************************************************)
\* no account, one account, or a second account behind the first
AccountLists ==
  {<<>>} \cup {<<a>> : a \in Addr}
         \cup {<<a, AddrPool[1]>> : a \in Addr \ {AddrPool[1]}}

Accounts(l) == [kind |-> "accounts", accounts |-> l, code |-> 0, message |-> ""]

ProviderError(code, message) ==
  [kind |-> "error", accounts |-> <<>>, code |-> code, message |-> message]

RequestOutcomes ==
  {Accounts(l) : l \in AccountLists}
    \cup { ProviderError(4001, "User rejected the request."),
           ProviderError(-32002, "Request already pending."),
           ProviderError(-32603, "Internal JSON-RPC error."),
           ProviderError(-32603, "") }

Thrown(message, opened) ==
  [ok |-> FALSE, value |-> "", error |-> message, opened |-> opened]

Returned(value) == [ok |-> TRUE, value |-> value, error |-> "", opened |-> ""]

(***************************************************************************)
(* src/lib/wallet.ts                                                       *)
(***************************************************************************)
getProvider(w, walletType, out) ==
  IF ~w.hasEthereum
  THEN Thrown("No Web3 provider found. Please install a wallet.", "")
  ELSE IF walletType = "metamask" /\ ~w.ethereum.isMetaMask
  THEN Thrown("Please install MetaMask to continue.",
              "https://metamask.io/download/")
  ELSE IF walletType = "coinbase" /\ ~w.ethereum.isCoinbaseWallet
  THEN Thrown("Please install Coinbase Wallet to continue.",
              "https://www.coinbase.com/wallet")
  ELSE IF out.kind = "error"
  THEN IF out.code = 4001
       THEN Thrown("Please accept the connection request in your wallet.", "")
       ELSE IF out.code = -32002
       THEN Thrown("Wallet is already processing a request. Please check your wallet extension.", "")
       ELSE Thrown(out.message, "")
  ELSE IF Len(out.accounts) = 0
  THEN Thrown("No accounts found. Please unlock your wallet.", "")
  ELSE Returned(out.accounts[1])

\* the wallet ids that reach a provider, and those the switch rejects
WalletIds == {"metamask", "coinbase", "brave", "smartwallet"}

UnsupportedIds == {"walletconnect", "rainbow", "unknown"}

SupportedIds == {"metamask", "coinbase", "brave"}

\* lib/wallet.ts connectWallet: getProvider, then the three listeners
LibConnectWallet(walletId, out) ==
  LET r == getProvider(win, walletId, out) IN
  /\ UNCHANGED apiVars
  /\ UNCHANGED uiVars
  /\ UNCHANGED <<ls, address, win>>
  /\ listeners' = IF r.ok THEN listeners \cup {"lib"} ELSE listeners
  /\ ret' = IF r.ok
            THEN Result("lib.connectWallet", walletId, TRUE, r.value, "",
                        "", FALSE, ls' # ls)
            ELSE Result("lib.connectWallet", walletId, FALSE, "",
                        IF r.error # "" THEN r.error
                        ELSE "Failed to connect wallet. Please try again.",
                        r.opened, FALSE, ls' # ls)

\* lib/wallet.ts disconnectWallet
LibDisconnectWallet ==
  /\ UNCHANGED apiVars
  /\ UNCHANGED uiVars
  /\ ls' = ClearSession(ls)
  /\ address' = ReloadedAddress(ls')
  /\ listeners' = {}
  /\ ret' = Result("disconnectWallet", "", TRUE, "", "", "", TRUE, ls' # ls)
  /\ UNCHANGED win

(***************************************************************************)
(* The multi-provider wallet module (the script appended to                *)
(* public/auth-debug.html).                                                *)
(***************************************************************************)
\* the predicates the module passes to providers.find / providers.some
Matches(test, p) ==
  CASE test = "isMetaMask" -> p.isMetaMask
    [] test = "isMetaMask && !isCoinbaseWallet" ->
         p.isMetaMask /\ ~p.isCoinbaseWallet
    [] test = "isCoinbaseWallet" -> p.isCoinbaseWallet
    [] test = "MetaMask name or id" -> p.name = "MetaMask" \/ p.id = "metamask"
    [] test = "Coinbase name or id" ->
         p.name = "CoinbaseWallet" \/ p.id = "coinbase"

\* window.ethereum?.providers?.some(test)
SomeProvider(w, test) ==
  /\ w.hasEthereum
  /\ w.ethereum.hasProviders
  /\ \E i \in 1..Len(w.ethereum.providers) :
       Matches(test, w.ethereum.providers[i])

FoundProvider(p) == [found |-> TRUE, provider |-> p]

NoProvider == [found |-> FALSE, provider |-> OtherProvider]

\* window.ethereum.providers.find(test): the first match, or undefined
FindProvider(w, test) ==
  IF SomeProvider(w, test)
  THEN LET ps == w.ethereum.providers
           i == CHOOSE i \in 1..Len(ps) :
                  /\ Matches(test, ps[i])
                  /\ \A j \in 1..(i - 1) : ~Matches(test, ps[j])
       IN FoundProvider(ps[i])
  ELSE NoProvider

\* window.ethereum itself, seen as a provider
TopProvider(w) ==
  Provider(w.ethereum.isMetaMask, w.ethereum.isCoinbaseWallet,
           "ethereum", "ethereum")

\* the coinbaseWalletExtension object, seen as a provider
ExtensionProvider == Provider(FALSE, TRUE, "coinbaseWalletExtension", "extension")

\* mutant: the detection answers yes without looking
MetaMaskAssumedInstalled(w) == TRUE

isMetaMaskInstalled(w) ==
  \/ w.hasEthereum /\ w.ethereum.isMetaMask
  \/ SomeProvider(w, "isMetaMask")
  \/ w.metamask
  \/ SomeProvider(w, "MetaMask name or id")

isCoinbaseWalletInstalled(w) ==
  \/ w.coinbaseWalletExtension
  \/ w.hasEthereum /\ w.ethereum.isCoinbaseWallet
  \/ SomeProvider(w, "isCoinbaseWallet")
  \/ w.coinbaseWallet
  \/ SomeProvider(w, "Coinbase name or id")

\* getMetaMaskProvider: window.ethereum when it carries the MetaMask flag
\* without the Coinbase flag, else the first such provider of a non-empty
\* list, else the first provider of the list named MetaMask, else null
getMetaMaskProvider(w) ==
  IF w.hasEthereum /\ w.ethereum.isMetaMask /\ ~w.ethereum.isCoinbaseWallet
  THEN FoundProvider(TopProvider(w))
  ELSE IF SomeProvider(w, "isMetaMask && !isCoinbaseWallet")
  THEN FindProvider(w, "isMetaMask && !isCoinbaseWallet")
  ELSE FindProvider(w, "MetaMask name or id")

getCoinbaseWalletProvider(w) ==
  IF w.coinbaseWalletExtension THEN FoundProvider(ExtensionProvider)
  ELSE IF w.hasEthereum /\ w.ethereum.isCoinbaseWallet
  THEN FoundProvider(TopProvider(w))
  ELSE IF SomeProvider(w, "isCoinbaseWallet") THEN FindProvider(w, "isCoinbaseWallet")
  ELSE FindProvider(w, "Coinbase name or id")

\* connectMetaMask, lines 441-444: window.ethereum, or the first provider of
\* the list with the MetaMask flag when a list exists
MetaMaskConnectProvider(w) ==
  IF w.ethereum.hasProviders THEN FindProvider(w, "isMetaMask")
  ELSE FoundProvider(TopProvider(w))

\* the request / accounts part common to connectMetaMask and
\* connectCoinbaseWallet (lines 450-479 and 497-526)
RequestAccounts(out, rejected, fallback) ==
  IF out.kind = "error"
  THEN IF out.code = 4001 THEN Thrown(rejected, "")
       ELSE Thrown(IF out.message # "" THEN out.message ELSE fallback, "")
  ELSE IF Len(out.accounts) = 0 THEN Thrown(rejected, "")
  ELSE Returned(out.accounts[1])

connectMetaMask(w, out) ==
  IF ~isMetaMaskInstalled(w)
  THEN Thrown("MetaMask is not installed. Please install MetaMask to continue.",
              "https://metamask.io/download/")
  ELSE IF ~w.hasEthereum
  THEN Thrown("TypeError: Cannot read properties of undefined (reading 'providers')", "")
  ELSE IF ~MetaMaskConnectProvider(w).found
  THEN Thrown("MetaMask provider not found", "")
  ELSE RequestAccounts(out, "Please connect to MetaMask.",
                       "Failed to connect to MetaMask")

connectCoinbaseWallet(w, out) ==
  IF ~isCoinbaseWalletInstalled(w)
  THEN Thrown("Coinbase Wallet is not installed. Please install Coinbase Wallet to continue.",
              "https://www.coinbase.com/wallet/downloads")
  ELSE IF ~getCoinbaseWalletProvider(w).found
  THEN Thrown("Coinbase Wallet provider not found", "")
  ELSE RequestAccounts(out, "Please connect to Coinbase Wallet.",
                       "Failed to connect to Coinbase Wallet")

\* connectSmartWallet: Web3Auth yields no provider, fails, or yields a signer
\* address (here: an error outcome, an empty list, or the first account)
connectSmartWallet(out) ==
  IF out.kind = "error"
  THEN Thrown("Failed to connect Smart Wallet: " \o out.message, "")
  ELSE IF Len(out.accounts) = 0
  THEN Thrown("Failed to connect Smart Wallet: Failed to get provider", "")
  ELSE Returned(out.accounts[1])

\* the switch of connectWallet(walletId)
connectWallet(w, walletId, out) ==
  CASE walletId = "metamask" -> connectMetaMask(w, out)
    [] walletId = "smartwallet" -> connectSmartWallet(out)
    [] walletId = "coinbase" -> connectCoinbaseWallet(w, out)
    [] walletId = "walletconnect" ->
         Thrown("WalletConnect integration coming soon", "")
    [] walletId = "brave" -> connectMetaMask(w, out)
    [] walletId = "rainbow" -> Thrown("Rainbow Wallet integration coming soon", "")
    [] OTHER -> Thrown("Wallet not supported", "")

\* the listener set a successful connect of that wallet id registers
ListenerOf(walletId) ==
  CASE walletId = "smartwallet" -> "smartwallet"
    [] walletId = "coinbase" -> "coinbase"
    [] OTHER -> "metamask"

ConnectWallet(walletId, out) ==
  LET r == connectWallet(win, walletId, out) IN
  /\ UNCHANGED apiVars
  /\ UNCHANGED uiVars
  /\ UNCHANGED <<ls, address, win>>
  /\ listeners' = IF r.ok THEN listeners \cup {ListenerOf(walletId)}
                  ELSE listeners
  /\ ret' = Result("connectWallet", walletId, r.ok, r.value, r.error,
                   r.opened, FALSE, ls' # ls)

\* getMetaMaskChainId up to its provider: the locator is asked for the
\* MetaMask provider of the window
LocateMetaMask ==
  LET r == getMetaMaskProvider(win) IN
  /\ UNCHANGED apiVars
  /\ UNCHANGED uiVars
  /\ UNCHANGED <<ls, address, listeners, win>>
  /\ ret' = Result("getMetaMaskProvider", "", r.found,
                   IF r.found THEN r.provider.name ELSE "",
                   IF r.found THEN "" ELSE "Failed to get MetaMask provider",
                   "", FALSE, ls' # ls)

(***************************************************************************)
(* Wallet events, delivered to a listener registered in the current page.  *)
(***************************************************************************)
FirstAccount(accounts) == IF Len(accounts) = 0 THEN "" ELSE accounts[1]

\* lib/wallet.ts, lines 68-78
LibAccountsChanged(accounts) ==
  /\ UNCHANGED apiVars
  /\ UNCHANGED uiVars
  /\ "lib" \in listeners
  /\ IF Len(accounts) = 0
     THEN /\ ls' = ClearSession(ls)
          /\ address' = ReloadedAddress(ls')
          /\ listeners' = {}
     ELSE /\ ls' = setItem(ls, "walletAddress", accounts[1])
          /\ UNCHANGED <<address, listeners>>
  /\ ret' = Result("accountsChanged", "lib", TRUE, FirstAccount(accounts),
                   "", "", Len(accounts) = 0, ls' # ls)
  /\ UNCHANGED win

\* connectMetaMask lines 460-466, connectCoinbaseWallet lines 507-513
InjectedAccountsChanged(v, accounts) ==
  /\ UNCHANGED apiVars
  /\ UNCHANGED uiVars
  /\ v \in listeners \cap {"metamask", "coinbase"}
  /\ ls' = IF Len(accounts) = 0 THEN ClearSession(ls) ELSE ls
  /\ address' = ReloadedAddress(ls')
  /\ listeners' = {}
  /\ ret' = Result("accountsChanged", v, TRUE, FirstAccount(accounts),
                   "", "", TRUE, ls' # ls)
  /\ UNCHANGED win

\* mutant: the listener reloads without clearing the session
SmartAccountsChangedKeepsSession(accounts) ==
  /\ UNCHANGED apiVars
  /\ UNCHANGED uiVars
  /\ "smartwallet" \in listeners
  /\ UNCHANGED <<ls, win>>
  /\ address' = ReloadedAddress(ls)
  /\ listeners' = {}
  /\ ret' = Result("accountsChanged", "smartwallet", TRUE,
                   FirstAccount(accounts), "", "", TRUE, FALSE)

\* connectSmartWallet lines 563-570
SmartAccountsChanged(accounts) ==
  /\ UNCHANGED apiVars
  /\ UNCHANGED uiVars
  /\ "smartwallet" \in listeners
  /\ IF Len(accounts) = 0
     THEN /\ ls' = ClearSession(ls)
          /\ address' = ReloadedAddress(ls')
          /\ listeners' = {}
     ELSE UNCHANGED <<ls, address, listeners>>
  /\ ret' = Result("accountsChanged", "smartwallet", TRUE,
                   FirstAccount(accounts), "", "", Len(accounts) = 0, ls' # ls)
  /\ UNCHANGED win

\* every variant's chainChanged listener only reloads
ChainChanged(v) ==
  /\ UNCHANGED apiVars
  /\ UNCHANGED uiVars
  /\ v \in listeners
  /\ UNCHANGED <<ls, win>>
  /\ address' = ReloadedAddress(ls)
  /\ listeners' = {}
  /\ ret' = Result("chainChanged", v, TRUE, "", "", "", TRUE, ls' # ls)

\* lib/wallet.ts, lines 85-90
LibProviderDisconnect ==
  /\ UNCHANGED apiVars
  /\ UNCHANGED uiVars
  /\ "lib" \in listeners
  /\ ls' = ClearSession(ls)
  /\ address' = ReloadedAddress(ls')
  /\ listeners' = {}
  /\ ret' = Result("providerDisconnect", "lib", TRUE, "", "", "", TRUE, ls' # ls)
  /\ UNCHANGED win

\* the user reloads the page
PageReload ==
  /\ UNCHANGED apiVars
  /\ UNCHANGED uiVars
  /\ UNCHANGED <<ls, win>>
  /\ address' = ReloadedAddress(ls)
  /\ listeners' = {}
  /\ ret' = Result("reload", "", TRUE, "", "", "", TRUE, ls' # ls)

(***************************************************************************)
(* The routes of App and their guard.                                      *)
(***************************************************************************)
\* the locations the browser is sent to: the two public pages, the index,
\* a page under the layout, the profile page and an unknown path
Paths == {"/login", "/signup", "/", "/create", "/profile", "/nowhere"}

\* <Navigate to="/login" replace />
NavigateToLogin == [redirect |-> TRUE, element |-> "Login"]

Element(name) == [redirect |-> FALSE, element |-> name]

\* mutant: the guard lets everything through
ProtectedRouteOpen(store, children) == children

\* ProtectedRoute: its children when a token is stored, else the redirect
ProtectedRoute(store, children) ==
  IF ~Truthy(getItem(store, "token")) THEN NavigateToLogin ELSE children

\* <Route path="/" element={<ProtectedRoute><Layout /></ProtectedRoute>}>:
\* the layout with the matched child route in its outlet
LayoutRoute(store, child) ==
  LET layout == ProtectedRoute(store, Element("Layout")) IN
  IF layout.redirect THEN layout ELSE child

\* <Routes>: what the route table renders at a path
Routes(store, path) ==
  CASE path = "/login" -> Element("Login")
    [] path = "/signup" -> Element("Signup")
    [] path = "/" -> LayoutRoute(store, Element("Index"))
    [] path = "/create" -> LayoutRoute(store, Element("CreateGift"))
    [] path = "/profile" ->
         LayoutRoute(store, ProtectedRoute(store, Element("Profile")))
    [] OTHER -> Element("NotFound")

\* the paths whose route is inside a ProtectedRoute
ProtectedPaths == {"/", "/create", "/profile"}

\* the router renders the route of the location; `ok`: without a redirect
RenderRoute(path) ==
  LET r == Routes(ls, path) IN
  /\ UNCHANGED apiVars
  /\ UNCHANGED uiVars
  /\ UNCHANGED <<ls, address, listeners, win>>
  /\ ret' = Result("render", path, ~r.redirect, r.element, "", "", FALSE,
                   ls' # ls)

(***************************************************************************)
(* src/services/auth.ts                                                    *)
(***************************************************************************)
BackendTokens == {"jwt-1", "jwt-2"}

\* loginWithWallet throws (as does anything else inside the try block),
\* answers without a token, or answers with one
LoginOutcomes == {"throws", "notoken"} \cup BackendTokens

\* mutant: authenticate keeps the address it had stored
AuthenticateStoreTokenOnly(store, walletAddress, token) ==
  setItem(store, "token", token)

\* authenticate, lines 62-64
AuthenticateStore(store, walletAddress, token) ==
  setItem(setItem(store, "token", token), "walletAddress", walletAddress)

Authenticate(walletAddress, login) ==
  /\ UNCHANGED apiVars
  /\ UNCHANGED uiVars
  /\ IF login \in BackendTokens
     THEN /\ ls' = AuthenticateStore(ls, walletAddress, login)
          /\ ret' = Result("authenticate", walletAddress, TRUE, "", "", "",
                           FALSE, ls' # ls)
     ELSE /\ ls' = ls
          /\ ret' = Result("authenticate", walletAddress, FALSE, "",
                           "Failed to authenticate wallet", "", FALSE, ls' # ls)
  /\ UNCHANGED <<address, listeners, win>>

(***************************************************************************)
(* The request client (src/utils/api.ts, and its other revision).          *)
(***************************************************************************)
\* const MAX_RETRIES = 3
MAX_RETRIES == 3

\* what one fetch() gives: a rejection (network failure), or a response
NetworkFailure == [threw |-> TRUE, status |-> 0]

Response(status) == [threw |-> FALSE, status |-> status]

Statuses == {200, 404, 409, 500}

TransportOutcomes == {NetworkFailure} \cup {Response(st) : st \in Statuses}

\* Response.ok
Ok(status) == status >= 200 /\ status <= 299

\* one request of a facade call: `retries` is the parameter of the current
\* activation of fetchWithRetry, `outs` the answers fetch() gave so far,
\* `delays` the number of RETRY_DELAY waits, `token` what
\* localStorage.getItem('token') gave when the headers were built and `auth`
\* the Authorization header (null: the request has no such header)
Request(mode, retries) ==
  [mode |-> mode, state |-> "fetching", retries |-> retries, delays |-> 0,
   outs |-> <<>>, status |-> 0, token |-> null, auth |-> null]

NoRequest == [Request("plain", 0) EXCEPT !.state = "idle"]

\* an outcome that is neither a 2xx nor a 404 response
RetryableOutcome(out) == out.threw \/ (~Ok(out.status) /\ out.status # 404)

\* fetchWithRetry(url, options): retries = MAX_RETRIES
FetchWithRetryStart == Request("retry", MAX_RETRIES)

\* a bare fetch(url, options)
FetchStart == Request("plain", 0)

\* mutant: a 404 is retried like any other failure
fetchWithRetryRetries404(f, out) ==
  LET g == [f EXCEPT !.outs = Append(@, out)] IN
  IF out.threw
  THEN IF f.retries > 0
       THEN [g EXCEPT !.state = "delaying"]
       ELSE [g EXCEPT !.state = "thrown"]
  ELSE IF ~Ok(out.status) /\ f.retries > 0
       THEN [g EXCEPT !.state = "delaying"]
       ELSE [g EXCEPT !.state = "returned", !.status = out.status]

\* mutant: the last network failure is swallowed into a response
fetchWithRetrySwallows(f, out) ==
  LET g == [f EXCEPT !.outs = Append(@, out)] IN
  IF out.threw
  THEN IF f.retries > 0
       THEN [g EXCEPT !.state = "delaying"]
       ELSE [g EXCEPT !.state = "returned", !.status = 500]
  ELSE IF ~Ok(out.status) /\ out.status # 404 /\ f.retries > 0
       THEN [g EXCEPT !.state = "delaying"]
       ELSE [g EXCEPT !.state = "returned", !.status = out.status]

\* fetchWithRetry calling itself at once, without the delay
fetchWithRetryImmediate(f, out) ==
  LET g == [f EXCEPT !.outs = Append(@, out)] IN
  IF RetryableOutcome(out) /\ f.retries > 0
  THEN [g EXCEPT !.state = "fetching", !.retries = @ - 1]
  ELSE IF out.threw
       THEN [g EXCEPT !.state = "thrown"]
       ELSE [g EXCEPT !.state = "returned", !.status = out.status]

\* one activation of fetchWithRetry, given what its fetch() gave
fetchWithRetry(f, out) ==
  LET g == [f EXCEPT !.outs = Append(@, out)] IN
  IF out.threw
  THEN IF f.retries > 0
       THEN [g EXCEPT !.state = "delaying"]
       ELSE [g EXCEPT !.state = "thrown"]
  ELSE IF ~Ok(out.status) /\ out.status # 404 /\ f.retries > 0
       THEN [g EXCEPT !.state = "delaying"]
       ELSE [g EXCEPT !.state = "returned", !.status = out.status]

\* await delay(RETRY_DELAY); return fetchWithRetry(url, options, retries - 1)
retryAfterDelay(f) ==
  [f EXCEPT !.state = "fetching", !.retries = @ - 1, !.delays = @ + 1]

\* await fetch(url, options)
fetch(f, out) ==
  LET g == [f EXCEPT !.outs = Append(@, out)] IN
  IF out.threw
  THEN [g EXCEPT !.state = "thrown"]
  ELSE [g EXCEPT !.state = "returned", !.status = out.status]

Settled(f) == f.state \in {"returned", "thrown"}

\* the request ended in a usable answer
Succeeded(f) == f.state = "returned" /\ Ok(f.status)

(***************************************************************************)
(* The domain facade: what each operation gives back to the UI.            *)
(***************************************************************************)
\* the body of the answer the facade reads: the expected JSON object, an
\* empty JSON object, something that is not JSON (an HTML page, content type
\* text/html), a JSON error object, the JSON error object of the backend's
\* missing-column failure, and a body announced as application/json that
\* does not parse
Bodies == {"full", "empty", "invalid", "failure", "column", "malformed"}

\* response.headers.get('content-type') includes 'application/json'
JsonContentType(body) == body # "invalid"

\* response.json() resolves
Parses(body) == body \notin {"invalid", "malformed"}

NoStats == <<0, 0, 0, 0>>

\* { success, data } returned by the facade
Envelope(success, data) ==
  [kind |-> "returned", success |-> success, data |-> data,
   id |-> null, walletAddress |-> "", stats |-> NoStats]

\* the facade's promise rejected
ThrownEnvelope == [Envelope(FALSE, "") EXCEPT !.kind = "thrown"]

NoEnvelope == [Envelope(FALSE, "") EXCEPT !.kind = "none"]

\* { success: true, data: { id, walletAddress, ..., stats } }
ProfileEnvelope(data, id, walletAddress, stats) ==
  [Envelope(TRUE, data) EXCEPT
     !.id = id, !.walletAddress = walletAddress, !.stats = stats]

\* the default profile of getUserProfile
DefaultProfile(who) ==
  ProfileEnvelope("default-profile", null, who, NoStats)

\* createUserIfNotExists, after its fetchWithRetry settled
createUserIfNotExists(f) ==
  IF f.state = "thrown" THEN Envelope(FALSE, "error")
  ELSE IF ~Ok(f.status) /\ f.status # 409 THEN Envelope(FALSE, "error")
  ELSE Envelope(TRUE, "")

\* mutant: a failed profile read is reported as a failure
getUserProfileReportsFailure(who, f, body) ==
  IF f.state = "thrown" THEN Envelope(FALSE, "error")
  ELSE IF ~Ok(f.status) THEN Envelope(FALSE, "error")
  ELSE IF ~Parses(body) THEN Envelope(FALSE, "error")
  ELSE IF body = "full"
  THEN ProfileEnvelope("profile", "user-1", who, <<1, 2, 3, 4>>)
  ELSE ProfileEnvelope("profile", null, who, NoStats)

\* getUserProfile, after the fetchWithRetry of the profile settled
getUserProfile(who, f, body) ==
  IF f.state = "thrown" THEN DefaultProfile(who)
  ELSE IF ~Ok(f.status) THEN DefaultProfile(who)
  ELSE IF ~Parses(body) THEN DefaultProfile(who)
  ELSE IF body = "full"
  THEN ProfileEnvelope("profile", "user-1", who, <<1, 2, 3, 4>>)
  ELSE ProfileEnvelope("profile", null, who, NoStats)

\* mutant: a failed profile update is answered by a success placeholder
updateUserProfileSimulated(f, body) ==
  IF f.state = "thrown" THEN Envelope(TRUE, "simulated")
  ELSE IF ~Ok(f.status) THEN Envelope(TRUE, "simulated")
  ELSE IF ~Parses(body) THEN Envelope(TRUE, "simulated")
  ELSE Envelope(TRUE, "data")

updateUserProfile(f, body) ==
  IF f.state = "thrown" THEN Envelope(FALSE, "error")
  ELSE IF ~Ok(f.status) THEN Envelope(FALSE, "error")
  ELSE IF ~Parses(body) THEN Envelope(FALSE, "error")
  ELSE Envelope(TRUE, "data")

\* getUserInventory and getUserActivity have the same shape
getUserInventory(f, body) ==
  IF f.state = "thrown" THEN Envelope(TRUE, "empty")
  ELSE IF ~Ok(f.status) THEN Envelope(TRUE, "empty")
  ELSE IF ~Parses(body) THEN Envelope(TRUE, "empty")
  ELSE Envelope(TRUE, "data")

getUserActivity(f, body) == getUserInventory(f, body)

\* createGiftCard: src/utils/api.ts, then its other revision
createGiftCard(rev, f, body) ==
  IF rev = "api"
  THEN IF Succeeded(f)
       THEN Envelope(TRUE, "test-id-123")
       ELSE Envelope(TRUE, "test-id-fallback")
  ELSE IF f.state = "thrown" THEN ThrownEnvelope
       ELSE IF ~Ok(f.status) THEN ThrownEnvelope
       ELSE IF body = "full" THEN Envelope(TRUE, "data")
       ELSE ThrownEnvelope

\* transferGiftCard; `second` is the answer to the update-owner request of
\* the other revision
transferGiftCard(rev, f, body, second) ==
  IF rev = "api"
  THEN IF f.state = "thrown"
       THEN Envelope(TRUE, "simulated after error")
       ELSE Envelope(TRUE, "simulated")
  ELSE IF f.state = "thrown" THEN Envelope(FALSE, "error")
       ELSE IF ~Ok(f.status)
       THEN IF body = "column"
            THEN IF second.threw THEN Envelope(FALSE, "error")
                 ELSE IF Ok(second.status) THEN Envelope(TRUE, "alternative")
                 ELSE Envelope(FALSE, "error")
            ELSE Envelope(FALSE, "error")
       ELSE IF ~Parses(body) THEN Envelope(TRUE, "unparsed")
       ELSE Envelope(TRUE, "data")

setGiftCardSecret(rev, f, body) ==
  IF rev = "api"
  THEN IF f.state = "thrown"
       THEN Envelope(FALSE, "error")
       ELSE Envelope(TRUE, "simulated")
  ELSE IF Succeeded(f) THEN Envelope(TRUE, "data")
       ELSE Envelope(FALSE, "error")

\* claimGiftCard gives the same envelopes in both revisions
claimGiftCard(rev, f, body) ==
  IF f.state = "thrown" THEN Envelope(FALSE, "error")
  ELSE IF ~Ok(f.status) THEN Envelope(FALSE, "error")
  ELSE IF ~Parses(body) THEN Envelope(FALSE, "error")
  ELSE Envelope(TRUE, "data")

(***************************************************************************)
(* Request headers, and authenticatedFetch with handleApiResponse.         *)
(***************************************************************************)
\* `${token}` in a template literal: null is written "null"
TemplateString(v) == IF v = null THEN "null" ELSE v

\* getAuthHeaders().Authorization
getAuthHeaders(store) == "Bearer " \o TemplateString(getItem(store, "token"))

\* authenticatedFetch: token ? `Bearer ${token}` : ''
authenticatedFetchHeader(store) ==
  IF Truthy(getItem(store, "token"))
  THEN "Bearer " \o getItem(store, "token") ELSE ""

\* the Authorization header each operation puts on its request; create,
\* transfer and secret-set of src/utils/api.ts send none, the other
\* revision writes `Bearer ${localStorage.getItem('token')}` in place
Authorization(op, rev, store) ==
  CASE op = "authenticatedFetch" -> authenticatedFetchHeader(store)
    [] op \in {"createGiftCard", "transferGiftCard", "setGiftCardSecret"} ->
         IF rev = "api" THEN null
         ELSE "Bearer " \o TemplateString(getItem(store, "token"))
    [] OTHER -> getAuthHeaders(store)

\* the request as the operation builds it from localStorage
BuildRequest(r, op, rev, store) ==
  [r EXCEPT !.token = getItem(store, "token"),
            !.auth = Authorization(op, rev, store)]

\* a rejected promise carrying `new Error(message)`
Rejected(message) == [ThrownEnvelope EXCEPT !.data = message]

\* mutant: a body that does not parse is passed on as an empty result
handleApiResponseLenient(body) ==
  IF ~JsonContentType(body)
  THEN Rejected("Server returned an invalid response format. Please check if the API server is running correctly.")
  ELSE IF ~Parses(body) THEN Envelope(TRUE, "empty")
  ELSE Envelope(body = "full", body)

\* handleApiResponse: the parsed body, or the formatting error
handleApiResponse(body) ==
  IF ~JsonContentType(body)
  THEN Rejected("Server returned an invalid response format. Please check if the API server is running correctly.")
  ELSE IF ~Parses(body) THEN Rejected("Invalid JSON response from server")
  ELSE Envelope(body = "full", body)

\* authenticatedFetch, after its fetch settled
authenticatedFetch(f, body) ==
  IF f.state = "thrown" THEN Rejected("Failed to fetch")
  ELSE IF ~Ok(f.status) THEN Rejected("Request failed with status")
  ELSE handleApiResponse(body)

(***************************************************************************)
(* A facade call, step by step.                                            *)
(***************************************************************************)
FacadeOps ==
  {"createUserIfNotExists", "getUserProfile", "updateUserProfile",
   "getUserInventory", "getUserActivity", "createGiftCard",
   "transferGiftCard", "setGiftCardSecret", "claimGiftCard",
   "authenticatedFetch"}

\* "api" is src/utils/api.ts, "alt" its other revision
Revisions == {"api", "alt"}

\* the operations that take the wallet address
AddressOps ==
  {"createUserIfNotExists", "getUserProfile", "getUserInventory",
   "getUserActivity"}

\* the operations whose code differs between the two revisions
RevisedOps ==
  {"createGiftCard", "transferGiftCard", "setGiftCardSecret", "claimGiftCard"}

\* the calls the UI makes: <<operation, revision, address>>
FacadeCalls ==
  {<<op, "api", a>> : op \in AddressOps, a \in Addr}
    \cup {<<op, rev, "">> : op \in RevisedOps, rev \in Revisions}
    \cup {<<op, "api", "">> : op \in FacadeOps \ (AddressOps \cup RevisedOps)}

\* the operations that go through fetchWithRetry; the others call fetch
UsesRetry(op) == op \in {"createUserIfNotExists", "getUserProfile"}

\* `body` is the response body the operation read before it returned,
\* `created` what the awaited createUserIfNotExists of getUserProfile gave
\* ("" while it has not returned)
FacadeCall(op, rev, arg, phase) ==
  [op |-> op, rev |-> rev, arg |-> arg, phase |-> phase, body |-> "",
   created |-> ""]

NoCall == FacadeCall("none", "api", "", "idle")

Facade(c, f, body, second) ==
  CASE c.op = "createUserIfNotExists" -> createUserIfNotExists(f)
    [] c.op = "getUserProfile" -> getUserProfile(c.arg, f, body)
    [] c.op = "updateUserProfile" -> updateUserProfile(f, body)
    [] c.op = "getUserInventory" -> getUserInventory(f, body)
    [] c.op = "getUserActivity" -> getUserActivity(f, body)
    [] c.op = "createGiftCard" -> createGiftCard(c.rev, f, body)
    [] c.op = "transferGiftCard" -> transferGiftCard(c.rev, f, body, second)
    [] c.op = "setGiftCardSecret" -> setGiftCardSecret(c.rev, f, body)
    [] c.op = "claimGiftCard" -> claimGiftCard(c.rev, f, body)
    [] c.op = "authenticatedFetch" -> authenticatedFetch(f, body)

\* the UI calls an operation of the facade; getUserProfile starts by
\* awaiting createUserIfNotExists
ApiCall(op, rev, a) ==
  /\ call.phase \in {"idle", "done"}
  /\ call' = FacadeCall(op, rev, a,
                        IF op = "getUserProfile" THEN "create" ELSE "main")
  /\ fw' = BuildRequest(IF UsesRetry(op) THEN FetchWithRetryStart
                        ELSE FetchStart, op, rev, ls)
  /\ env' = NoEnvelope
  /\ UNCHANGED sessionVars
  /\ UNCHANGED uiVars

\* fetch() settles
FetchSettles(out) ==
  /\ call.phase \in {"create", "main"}
  /\ fw.state = "fetching"
  /\ fw' = IF fw.mode = "retry" THEN fetchWithRetry(fw, out) ELSE fetch(fw, out)
  /\ UNCHANGED <<call, env>>
  /\ UNCHANGED sessionVars
  /\ UNCHANGED uiVars

\* RETRY_DELAY elapses and fetchWithRetry calls itself
RetryDelayElapsed ==
  /\ fw.state = "delaying"
  /\ fw' = retryAfterDelay(fw)
  /\ UNCHANGED <<call, env>>
  /\ UNCHANGED sessionVars
  /\ UNCHANGED uiVars

\* what getUserProfile gets from createUserIfNotExists
Creation(f) == IF createUserIfNotExists(f).success THEN "ok" ELSE "failed"

\* mutant: getUserProfile does not await createUserIfNotExists
UserCreatedNotAwaited ==
  /\ call.phase = "create"
  /\ fw.state # "fetching"
  /\ call' = [call EXCEPT !.phase = "main", !.created = Creation(fw)]
  /\ fw' = BuildRequest(FetchWithRetryStart, call.op, call.rev, ls)
  /\ UNCHANGED env
  /\ UNCHANGED sessionVars
  /\ UNCHANGED uiVars

\* getUserProfile: createUserIfNotExists returned (its envelope is dropped)
\* and the profile is requested
UserCreated ==
  /\ call.phase = "create"
  /\ Settled(fw)
  /\ call' = [call EXCEPT !.phase = "main", !.created = Creation(fw)]
  /\ fw' = BuildRequest(FetchWithRetryStart, call.op, call.rev, ls)
  /\ UNCHANGED env
  /\ UNCHANGED sessionVars
  /\ UNCHANGED uiVars

\* the facade operation returns (or throws) to the UI
FacadeReturns(body, second) ==
  /\ call.phase = "main"
  /\ second = NetworkFailure
       \/ (call.op = "transferGiftCard" /\ call.rev = "alt")
  /\ Settled(fw)
  /\ call' = [call EXCEPT !.phase = "done", !.body = body]
  /\ env' = Facade(call, fw, body, second)
  /\ UNCHANGED fw
  /\ UNCHANGED sessionVars
  /\ UNCHANGED uiVars

(***************************************************************************)
(* useUserData (src/hooks/useUserData.ts).                                 *)
(***************************************************************************)
\* the most fetchUserData runs in flight at once
MaxInFlight == 2

\* a field of userData: whose data it holds and which data (profile: null,
\* inventory: null and activities: [] before the first fetch)
Data(who, data) == [for |-> who, data |-> data]

NoData == Data("", "")

InitialUserData ==
  [profile |-> NoData, inventory |-> NoData, activities |-> NoData,
   isLoading |-> FALSE, error |-> null]

\* `address` is the argument of the hook at the last render, `rounds` the
\* addresses of the fetchUserData runs awaiting their Promise.all, `last`
\* the run that settled last
NoHook ==
  [mounted |-> FALSE, address |-> null, userData |-> InitialUserData,
   rounds |-> <<>>, last |-> [addr |-> "", failed |-> FALSE, aborted |-> FALSE]]

\* the transport answers every attempt of a request the same way
Repeat(out) == [i \in 1..(MAX_RETRIES + 1) |-> out]

\* a request run to its end against the answers of `script`
RECURSIVE RunRequest(_, _)
RunRequest(f, script) ==
  IF Settled(f) \/ script = <<>> THEN f
  ELSE LET g == IF f.mode = "retry"
                THEN fetchWithRetry(f, Head(script))
                ELSE fetch(f, Head(script))
       IN RunRequest(IF g.state = "delaying" THEN retryAfterDelay(g) ELSE g,
                     Tail(script))

HookAnswers == {Response(200), Response(500), NetworkFailure}

HookBodies == {"full", "empty", "malformed"}

RemoveAt(seq, i) == SubSeq(seq, 1, i - 1) \o SubSeq(seq, i + 1, Len(seq))

\* the effect on [address]: fetchUserData up to its await
HookRender(a) ==
  /\ a # hook.address \/ ~hook.mounted
  /\ Truthy(a) => Len(hook.rounds) < MaxInFlight
  /\ hook' =
       IF ~Truthy(a)
       THEN [hook EXCEPT !.mounted = TRUE, !.address = a,
                         !.userData.error = "No wallet address provided"]
       ELSE [hook EXCEPT !.mounted = TRUE, !.address = a,
                         !.userData.isLoading = TRUE,
                         !.userData.error = null,
                         !.rounds = Append(@, a)]
  /\ UNCHANGED sessionVars
  /\ UNCHANGED apiVars
  /\ UNCHANGED <<tabs, agent>>

\* what the three facade calls of a run give, from the answers to their
\* requests
RoundResults(a, pa, ia, aa, body) ==
  [profile |-> getUserProfile(a, RunRequest(FetchWithRetryStart, Repeat(pa)),
                              body),
   inventory |-> getUserInventory(RunRequest(FetchStart, Repeat(ia)), body),
   activity |-> getUserActivity(RunRequest(FetchStart, Repeat(aa)), body)]

\* the throw of fetchUserData: a rejected call, or one without success
RoundAborts(r) ==
  \/ r.profile.kind = "thrown" \/ ~r.profile.success
  \/ r.inventory.kind = "thrown" \/ ~r.inventory.success
  \/ r.activity.kind = "thrown" \/ ~r.activity.success

\* setUserData after the await, in the try or in the catch
SettledUserData(prev, a, r) ==
  IF RoundAborts(r)
  THEN [prev EXCEPT !.isLoading = FALSE, !.error = "Failed to fetch user data"]
  ELSE [profile |-> Data(r.profile.walletAddress, r.profile.data),
        inventory |-> Data(a, r.inventory.data),
        activities |-> Data(a, r.activity.data),
        isLoading |-> FALSE, error |-> null]

\* mutant: the result of a run for another address than the current one is
\* dropped
HookRoundSettlesCancelled(i, pa, ia, aa, body) ==
  /\ i \in 1..Len(hook.rounds)
  /\ LET a == hook.rounds[i]
         r == RoundResults(a, pa, ia, aa, body)
     IN hook' = [hook EXCEPT
          !.rounds = RemoveAt(@, i),
          !.userData = IF a = hook.address
                       THEN SettledUserData(@, a, r) ELSE @,
          !.last = [addr |-> a,
                    failed |-> ~(Ok(pa.status) /\ Ok(ia.status)
                                 /\ Ok(aa.status)),
                    aborted |-> RoundAborts(r)]]
  /\ UNCHANGED sessionVars
  /\ UNCHANGED apiVars
  /\ UNCHANGED <<tabs, agent>>

\* the Promise.all of the i-th run in flight settles and fetchUserData runs
\* to its end; pa, ia and aa are the answers to the profile, inventory and
\* activity requests
HookRoundSettles(i, pa, ia, aa, body) ==
  /\ i \in 1..Len(hook.rounds)
  /\ LET a == hook.rounds[i]
         r == RoundResults(a, pa, ia, aa, body)
     IN hook' = [hook EXCEPT
          !.rounds = RemoveAt(@, i),
          !.userData = SettledUserData(@, a, r),
          !.last = [addr |-> a,
                    failed |-> ~(Ok(pa.status) /\ Ok(ia.status)
                                 /\ Ok(aa.status)),
                    aborted |-> RoundAborts(r)]]
  /\ UNCHANGED sessionVars
  /\ UNCHANGED apiVars
  /\ UNCHANGED <<tabs, agent>>

(***************************************************************************)
(* Two tabs of the application on one localStorage.                        *)
(***************************************************************************)
Tabs == {"tab1", "tab2"}

\* the call a tab runs: WalletContext.connect(addr), or
\* AuthService.authenticate(addr) answered with `token` by the backend
TabCall(pc, kind, addr, token) ==
  [pc |-> pc, kind |-> kind, addr |-> addr, token |-> token]

IdleTab == TabCall("idle", "", "", "")

\* `last` is the tab that wrote localStorage last
NoTabs == [procs |-> [t \in Tabs |-> IdleTab], last |-> ""]

TabCalls ==
  {TabCall("between", "connect", a, Web3AuthToken(a)) : a \in Addr}
    \cup {TabCall("between", "authenticate", a, tok) :
            a \in Addr, tok \in BackendTokens}

\* the first localStorage write of the call: connect writes walletAddress
\* (WalletContext.tsx line 61), authenticate writes token (auth.ts line 62)
TabWritesFirst(t, c) ==
  /\ tabs.procs[t].pc = "idle"
  /\ ls' = IF c.kind = "connect"
           THEN setItem(ls, "walletAddress", c.addr)
           ELSE setItem(ls, "token", c.token)
  /\ tabs' = [tabs EXCEPT !.procs[t] = c, !.last = t]
  /\ UNCHANGED <<address, listeners, win, ret>>
  /\ UNCHANGED apiVars
  /\ UNCHANGED <<hook, agent>>

\* the second write: connect writes token (line 62), authenticate writes
\* walletAddress (line 63)
TabWritesSecond(t) ==
  /\ tabs.procs[t].pc = "between"
  /\ ls' = IF tabs.procs[t].kind = "connect"
           THEN setItem(ls, "token", tabs.procs[t].token)
           ELSE setItem(ls, "walletAddress", tabs.procs[t].addr)
  /\ tabs' = [tabs EXCEPT !.procs[t].pc = "done", !.last = t]
  /\ UNCHANGED <<address, listeners, win, ret>>
  /\ UNCHANGED apiVars
  /\ UNCHANGED <<hook, agent>>

\* the call returned; the tab may call again
TabReturns(t) ==
  /\ tabs.procs[t].pc = "done"
  /\ tabs' = [tabs EXCEPT !.procs[t] = IdleTab]
  /\ UNCHANGED sessionVars
  /\ UNCHANGED apiVars
  /\ UNCHANGED <<hook, agent>>

(***************************************************************************)
(* useAgent (src/hooks/useAgent.ts) under the chat window of AgentChat.    *)
(***************************************************************************)
\* the longest history
MaxMessages == 4

\* what the user sends: two questions and a blank line
AgentInputs == {"q1", "q2", " "}

\* input.trim()
Trim(input) == IF input = " " THEN "" ELSE input

Message(text, sender) == [text |-> text, sender |-> sender]

\* the welcome message of the offline mode
Welcome == Message("I'm now in offline mode.", "agent")

\* findOfflineResponse(query): the canned answer to the query
findOfflineResponse(query) == "offline answer to " \o query

\* what the backend does with POST /api/agent: it answers with a response,
\* answers with neither response nor error, or the request fails
AgentOutcomes == {"response", "empty", "fails"}

\* messageAgent(userMessage, offlineMode): the reply, or null
messageAgent(userMessage, offlineMode, out) ==
  IF offlineMode THEN findOfflineResponse(userMessage)
  ELSE IF out = "response" THEN "online answer to " \o userMessage
  ELSE IF out = "empty" THEN null
  ELSE findOfflineResponse(userMessage)

\* the sendMessage awaiting messageAgent: its input and the isOfflineMode of
\* the render it was created in
Pending(input, offline) == [active |-> TRUE, input |-> input, offline |-> offline]

NoPending == [active |-> FALSE, input |-> "", offline |-> FALSE]

\* `saved`, `savedMode`: localStorage 'evrlink-agent-chat-history' and
\* 'evrlink-offline-mode'
NoAgent ==
  [messages |-> <<>>, isThinking |-> FALSE, isOfflineMode |-> FALSE,
   pending |-> NoPending, saved |-> <<>>, savedMode |-> FALSE]

\* the effect on [isOfflineMode]: the welcome message opens an empty history
\* in offline mode
OfflineModeEffect(messages, offline) ==
  IF offline /\ Len(messages) = 0 THEN <<Welcome>> ELSE messages

\* the effects after a render: both items of localStorage are written
AgentEffects(a) ==
  [a EXCEPT !.saved = a.messages, !.savedMode = a.isOfflineMode]

\* onSendMessage / sendMessage up to its await; the input and the suggested
\* questions are disabled while isThinking
SendMessage(input) ==
  /\ ~agent.isThinking
  /\ Len(agent.messages) + 2 <= MaxMessages
  /\ agent' =
       IF Trim(input) = "" THEN agent
       ELSE AgentEffects(
              [agent EXCEPT !.messages = Append(@, Message(input, "user")),
                            !.isThinking = TRUE,
                            !.pending = Pending(input, agent.isOfflineMode)])
  /\ UNCHANGED sessionVars
  /\ UNCHANGED apiVars
  /\ UNCHANGED <<hook, tabs>>

\* the history after messageAgent gave responseMessage
AppendReply(messages, responseMessage) ==
  IF Truthy(responseMessage)
  THEN Append(messages, Message(responseMessage, "agent"))
  ELSE messages

\* messageAgent settles and sendMessage resumes
AgentReplies(out) ==
  LET responseMessage ==
        messageAgent(agent.pending.input, agent.pending.offline, out)
  IN
  /\ agent.pending.active
  /\ agent' =
       AgentEffects(
         [agent EXCEPT !.messages = AppendReply(@, responseMessage),
                       !.isThinking = FALSE,
                       !.pending = NoPending])
  /\ UNCHANGED sessionVars
  /\ UNCHANGED apiVars
  /\ UNCHANGED <<hook, tabs>>

\* toggleOfflineMode and the effect on [isOfflineMode]
ToggleOfflineMode ==
  /\ agent' =
       AgentEffects(
         [agent EXCEPT !.isOfflineMode = ~@,
                       !.messages = OfflineModeEffect(<<>>, ~agent.isOfflineMode)])
  /\ UNCHANGED sessionVars
  /\ UNCHANGED apiVars
  /\ UNCHANGED <<hook, tabs>>

\* the chat window is closed and opened again, or the page reloaded: useAgent
\* starts from localStorage, and a reply still awaited finds no component
AgentMount ==
  /\ agent' =
       AgentEffects(
         [agent EXCEPT !.messages = OfflineModeEffect(agent.saved, agent.savedMode),
                       !.isOfflineMode = agent.savedMode,
                       !.isThinking = FALSE,
                       !.pending = NoPending])
  /\ UNCHANGED sessionVars
  /\ UNCHANGED apiVars
  /\ UNCHANGED <<hook, tabs>>

(***************************************************************************)
(* The session specification: every operation and event that touches the   *)
(* session, with the wallet answering a connect by one account or by a     *)
(* rejection.                                                              *)
(***************************************************************************)
SessionOutcomes ==
  {Accounts(<<a>>) : a \in Addr}
    \cup {ProviderError(4001, "User rejected the request.")}

\* the account list an accountsChanged event carries
EventAccounts == {<<>>} \cup {<<a>> : a \in Addr}

ListenerKinds == {"lib", "metamask", "coinbase", "smartwallet"}

Init ==
  /\ ls = EmptyStorage
  /\ address = ReloadedAddress(ls)
  /\ listeners = {}
  /\ win \in SessionWindows
  /\ ret = NoResult
  /\ call = NoCall
  /\ fw = NoRequest
  /\ env = NoEnvelope
  /\ hook = NoHook
  /\ tabs = NoTabs
  /\ agent = NoAgent

Next ==
  \/ \E a \in ConnectInputs, quota \in BOOLEAN : WalletContextConnect(a, quota)
  \/ WalletContextDisconnect
  \/ \E id \in SupportedIds, out \in SessionOutcomes :
       LibConnectWallet(id, out)
  \/ LibDisconnectWallet
  \/ \E id \in WalletIds, out \in SessionOutcomes : ConnectWallet(id, out)
  \/ \E l \in EventAccounts : LibAccountsChanged(l)
  \/ \E v \in {"metamask", "coinbase"}, l \in EventAccounts :
       InjectedAccountsChanged(v, l)
  \/ \E l \in EventAccounts : SmartAccountsChanged(l)
  \/ \E v \in ListenerKinds : ChainChanged(v)
  \/ LibProviderDisconnect
  \/ PageReload
  \/ \E a \in Addr, login \in LoginOutcomes : Authenticate(a, login)
  \/ \E path \in Paths : RenderRoute(path)

Spec == Init /\ [][Next]_vars

(***************************************************************************)
(* The facade specification: any operation of the facade, over every      *)
(* sequence of answers of the transport.                                   *)
(***************************************************************************)
InitApi ==
  /\ ls = EmptyStorage
  /\ address = ReloadedAddress(ls)
  /\ listeners = {}
  /\ win = NoWallet
  /\ ret = NoResult
  /\ call = NoCall
  /\ fw = NoRequest
  /\ env = NoEnvelope
  /\ hook = NoHook
  /\ tabs = NoTabs
  /\ agent = NoAgent

NextApi ==
  \/ \E a \in Addr : WalletContextConnect(a, FALSE)
  \/ WalletContextDisconnect
  \/ \E c \in FacadeCalls : ApiCall(c[1], c[2], c[3])
  \/ \E out \in TransportOutcomes : FetchSettles(out)
  \/ RetryDelayElapsed
  \/ UserCreated
  \/ \E body \in Bodies, second \in TransportOutcomes :
       FacadeReturns(body, second)

SpecApi == InitApi /\ [][NextApi]_vars

(***************************************************************************)
(* The connect specification: the wallet connectors over every wallet id   *)
(* and every answer of the wallet, with a session that connect/disconnect  *)
(* of the WalletProvider sets and clears.                                  *)
(***************************************************************************)
ConnectWindows ==
  SessionWindows \cup
  { Window(TRUE, Ethereum(FALSE, TRUE, FALSE, <<>>), FALSE, FALSE, FALSE),
    Window(TRUE, Ethereum(FALSE, FALSE, FALSE, <<>>), FALSE, FALSE, FALSE),
    Window(TRUE, Ethereum(FALSE, FALSE, TRUE, <<OtherProvider>>),
           FALSE, FALSE, FALSE),
    Window(FALSE, NoEthereum, FALSE, TRUE, TRUE) }

InitConnect ==
  /\ ls = EmptyStorage
  /\ address = ReloadedAddress(ls)
  /\ listeners = {}
  /\ win \in ConnectWindows
  /\ ret = NoResult
  /\ call = NoCall
  /\ fw = NoRequest
  /\ env = NoEnvelope
  /\ hook = NoHook
  /\ tabs = NoTabs
  /\ agent = NoAgent

NextConnect ==
  \/ \E a \in Addr : WalletContextConnect(a, FALSE)
  \/ WalletContextDisconnect
  \/ \E id \in SupportedIds \cup UnsupportedIds, out \in RequestOutcomes :
       LibConnectWallet(id, out)
  \/ \E id \in WalletIds, out \in RequestOutcomes : ConnectWallet(id, out)
  \/ \E id \in UnsupportedIds : ConnectWallet(id, Accounts(<<>>))

SpecConnect == InitConnect /\ [][NextConnect]_vars

(***************************************************************************)
(* The hook specification: a component whose address changes while its    *)
(* fetches are in flight.                                                  *)
(***************************************************************************)
InitHook ==
  /\ ls = EmptyStorage
  /\ address = ReloadedAddress(ls)
  /\ listeners = {}
  /\ win = NoWallet
  /\ ret = NoResult
  /\ call = NoCall
  /\ fw = NoRequest
  /\ env = NoEnvelope
  /\ hook = NoHook
  /\ tabs = NoTabs
  /\ agent = NoAgent

NextHook ==
  \/ \E a \in Addr \cup {null} : HookRender(a)
  \/ \E i \in 1..MaxInFlight, pa \in HookAnswers, ia \in HookAnswers,
        aa \in HookAnswers, body \in HookBodies :
       HookRoundSettles(i, pa, ia, aa, body)

SpecHook == InitHook /\ [][NextHook]_vars

(***************************************************************************)
(* The tabs specification: two tabs connect over one localStorage, their   *)
(* writes interleaved in every order.                                      *)
(***************************************************************************)
InitTabs == InitHook

NextTabs ==
  \/ \E t \in Tabs, c \in TabCalls : TabWritesFirst(t, c)
  \/ \E t \in Tabs : TabWritesSecond(t)
  \/ \E t \in Tabs : TabReturns(t)

SpecTabs == InitTabs /\ [][NextTabs]_vars

(***************************************************************************)
(* The locator specification: the MetaMask locator and connectMetaMask     *)
(* over every shape of the injected surface.                               *)
(***************************************************************************)
\* the longest providers list
MaxProviders == 2

\* a provider of the list: its two flags, and whether it is named MetaMask
LocatorProviders ==
  {Provider(mm, cb, "MetaMask", "metamask") : mm \in BOOLEAN, cb \in BOOLEAN}
    \cup {Provider(mm, cb, "Other", "other") : mm \in BOOLEAN, cb \in BOOLEAN}

ProviderLists ==
  UNION {[1..k -> LocatorProviders] : k \in 0..MaxProviders}

\* no window.ethereum; window.ethereum without a providers list;
\* window.ethereum with one; each with or without window.metamask
LocatorWindows ==
  {Window(FALSE, NoEthereum, FALSE, g, FALSE) : g \in BOOLEAN}
    \cup {Window(TRUE, Ethereum(mm, cb, FALSE, <<>>), FALSE, g, FALSE) :
            mm \in BOOLEAN, cb \in BOOLEAN, g \in BOOLEAN}
    \cup {Window(TRUE, Ethereum(mm, cb, TRUE, ps), FALSE, g, FALSE) :
            mm \in BOOLEAN, cb \in BOOLEAN, g \in BOOLEAN,
            ps \in ProviderLists}

InitLocator ==
  /\ ls = EmptyStorage
  /\ address = ReloadedAddress(ls)
  /\ listeners = {}
  /\ win \in LocatorWindows
  /\ ret = NoResult
  /\ call = NoCall
  /\ fw = NoRequest
  /\ env = NoEnvelope
  /\ hook = NoHook
  /\ tabs = NoTabs
  /\ agent = NoAgent

NextLocator ==
  \/ LocateMetaMask
  \/ \E out \in SessionOutcomes : ConnectWallet("metamask", out)

SpecLocator == InitLocator /\ [][NextLocator]_vars

(***************************************************************************)
(* The retry specification: the two operations that go through             *)
(* fetchWithRetry, every fetch() settling and every RETRY_DELAY elapsing.  *)
(***************************************************************************)
RetryCalls == {c \in FacadeCalls : UsesRetry(c[1])}

NextRetry ==
  \/ \E c \in RetryCalls : ApiCall(c[1], c[2], c[3])
  \/ \E out \in TransportOutcomes : FetchSettles(out)
  \/ RetryDelayElapsed
  \/ UserCreated
  \/ \E body \in Bodies : FacadeReturns(body, NetworkFailure)

\* a pending fetch() resolves or rejects, a pending setTimeout fires
SpecRetry ==
  /\ InitApi
  /\ [][NextRetry]_vars
  /\ WF_vars(\E out \in TransportOutcomes : FetchSettles(out))
  /\ WF_vars(RetryDelayElapsed)

(***************************************************************************)
(* The agent specification: the chat of useAgent, the user sending,        *)
(* switching the mode and reopening the chat while a reply is awaited.     *)
(***************************************************************************)
InitAgent == InitHook

NextAgent ==
  \/ \E input \in AgentInputs : SendMessage(input)
  \/ \E out \in AgentOutcomes : AgentReplies(out)
  \/ ToggleOfflineMode
  \/ AgentMount

SpecAgent == InitAgent /\ [][NextAgent]_vars

(***************************************************************************)
(* Properties of the session.                                              *)
(***************************************************************************)
StoredSession ==
  getItem(ls, "token") # null /\ getItem(ls, "walletAddress") # null

NoStoredSession ==
  getItem(ls, "token") = null /\ getItem(ls, "walletAddress") = null

Disconnected == address = null /\ ~isConnected /\ NoStoredSession

\* C1: right after a successful WalletContext.connect(address) with a
\* non-empty address, localStorage holds walletAddress = address and a
\* non-null token, and getToken() returns that stored token.
C1_ConnectStoresSession ==
  (ret.op = "connect" /\ ret.ok) =>
    /\ ret.arg # ""
    /\ getItem(ls, "walletAddress") # null
    /\ getItem(ls, "walletAddress") = ret.arg
    /\ getItem(ls, "token") # null
    /\ getToken(ls) = getItem(ls, "token")

C1_Witness ==
  /\ ret.op = "connect" /\ ret.ok /\ ret.arg \in Addr
  /\ getItem(ls, "walletAddress") = ret.arg

\* C2: after disconnect() (WalletContext.disconnect or lib disconnectWallet),
\* from any session state, both keys are absent and getToken() returns null.
C2_DisconnectClears ==
  ret.op \in {"disconnect", "disconnectWallet"} =>
    /\ getItem(ls, "token") = null
    /\ getItem(ls, "walletAddress") = null
    /\ getToken(ls) = null

\* a disconnect that found a session and removed it
C2_Witness == ret.op = "disconnect" /\ ret.changed /\ NoStoredSession

\* the errors that tell the user a wallet is missing
NotInstalledErrors ==
  { "No Web3 provider found. Please install a wallet.",
    "Please install MetaMask to continue.",
    "Please install Coinbase Wallet to continue.",
    "MetaMask is not installed. Please install MetaMask to continue.",
    "Coinbase Wallet is not installed. Please install Coinbase Wallet to continue." }

\* C4: with nothing injected, connectWallet(walletId) for metamask, coinbase
\* and brave fails with a not-installed error and leaves localStorage as it
\* was (both connectors).
C4_NoProviderFails ==
  ( /\ ret.op \in {"lib.connectWallet", "connectWallet"}
    /\ ret.arg \in SupportedIds
    /\ win = NoWallet ) =>
    /\ ~ret.ok
    /\ ret.error \in NotInstalledErrors
    /\ ~ret.changed

\* the failed connect happened over a stored session, which is still there
C4_Witness ==
  /\ ret.op = "connectWallet" /\ ret.arg = "brave" /\ win = NoWallet
  /\ ~ret.ok /\ StoredSession

\* C5: an accountsChanged event with an empty account list, delivered to the
\* listener any successful connect registered (lib, MetaMask, Coinbase or
\* Smart Wallet), leaves neither token nor walletAddress in localStorage.
C5_EmptyAccountsClear ==
  (ret.op = "accountsChanged" /\ ret.value = "") => NoStoredSession

C5_Witness ==
  /\ ret.op = "accountsChanged" /\ ret.value = "" /\ ret.arg = "smartwallet"
  /\ ret.changed

\* C6 (as claimed): in every reachable state the token is stored if and only
\* if the walletAddress is stored.
C6_TokenIffAddress ==
  (getItem(ls, "token") # null) <=> (getItem(ls, "walletAddress") # null)

\* C10 (as claimed): a session appears only by a successful connect, and
\* disconnect, an account-empty event and a chain-change event each lead
\* from connected to the disconnected state.
C10_Original ==
  [][ /\ (~StoredSession /\ StoredSession') =>
           (ret'.op \in {"connect", "authenticate"} /\ ret'.ok)
      /\ ( /\ StoredSession
           /\ \/ ret'.op \in {"disconnect", "disconnectWallet", "chainChanged"}
              \/ ret'.op = "accountsChanged" /\ ret'.value = "" ) =>
           Disconnected' ]_vars

\* C10 (amended): a session appears only by a successful connect
\* (WalletContext.connect or AuthService.authenticate); disconnect and an
\* account-empty event lead from connected to the disconnected state; a
\* chain-change event only reloads the page: the stored session is untouched
\* and the reloaded WalletProvider is connected with the stored address.
C10_SessionMachine ==
  [][ /\ (~StoredSession /\ StoredSession') =>
           (ret'.op \in {"connect", "authenticate"} /\ ret'.ok)
      /\ ( /\ StoredSession
           /\ \/ ret'.op \in {"disconnect", "disconnectWallet"}
              \/ ret'.op = "accountsChanged" /\ ret'.value = "" ) =>
           Disconnected'
      /\ (StoredSession /\ ret'.op = "chainChanged") =>
           /\ ls' = ls
           /\ address' = getItem(ls, "walletAddress")
           /\ isConnected' ]_vars

\* a chain change that reloaded a connected page, which is connected again
C10_Witness ==
  ret.op = "chainChanged" /\ ret.reloaded /\ StoredSession /\ isConnected

(***************************************************************************)
(* Properties of the request client and of the facade (SpecApi).           *)
(***************************************************************************)
\* an answer fetchWithRetry treats as a failure worth another attempt
RetryableFailure(out) == out.threw \/ (~Ok(out.status) /\ out.status # 404)

AllRetryable(outs) == \A i \in 1..Len(outs) : RetryableFailure(outs[i])

\* every attempt failed and no attempt is left
Exhausted(f) ==
  /\ f.mode = "retry"
  /\ Settled(f)
  /\ Len(f.outs) > 0
  /\ AllRetryable(f.outs)

LastOut(f) == f.outs[Len(f.outs)]

\* C3: fetchWithRetry makes one attempt and at most MAX_RETRIES retries, one
\* RETRY_DELAY before each retry; against a transport that only fails it
\* makes exactly MAX_RETRIES retries; a 404 is never followed by a retry and
\* is returned as the response.
C3_RetryBound ==
  fw.mode = "retry" =>
    /\ Len(fw.outs) <= MAX_RETRIES + 1
    /\ fw.delays <= MAX_RETRIES
    /\ fw.delays + fw.retries = MAX_RETRIES
    /\ Len(fw.outs) = fw.delays + (IF fw.state = "fetching" THEN 0 ELSE 1)
    /\ Exhausted(fw) =>
         Len(fw.outs) = MAX_RETRIES + 1 /\ fw.delays = MAX_RETRIES
    /\ \A i \in 1..Len(fw.outs) :
         fw.outs[i] = Response(404) =>
           /\ i = Len(fw.outs)
           /\ fw.state = "returned"
           /\ fw.status = 404

\* the transport failed four times, by a status and by a network failure
C3_Witness ==
  /\ Exhausted(fw)
  /\ Len(fw.outs) = MAX_RETRIES + 1
  /\ fw.delays = MAX_RETRIES
  /\ fw.outs[1] = Response(500)
  /\ fw.outs[2] = NetworkFailure

\* C7: getUserProfile always returns an envelope with success = true; when
\* the profile request threw or ended with a non-OK status, its data is the
\* default profile: walletAddress = address, id = null, four stats of 0.
C7_ProfileFallback ==
  call.op = "getUserProfile" =>
    /\ env.kind # "thrown"
    /\ call.phase = "done" =>
         /\ env.kind = "returned"
         /\ env.success
         /\ ~Succeeded(fw) =>
              /\ env.walletAddress = call.arg
              /\ env.id = null
              /\ \A i \in 1..4 : env.stats[i] = 0

\* the profile request threw after its retries and the default came back
C7_Witness ==
  /\ call.op = "getUserProfile"
  /\ call.phase = "done"
  /\ fw.state = "thrown"
  /\ Len(fw.outs) = MAX_RETRIES + 1
  /\ env.success
  /\ env.walletAddress = call.arg

\* C8 as stated: once the retries are exhausted, fetchWithRetry throws,
\* whether the attempts failed by the network or by a status.
C8_Original == Exhausted(fw) => fw.state = "thrown"

\* C8: once the retries are exhausted, fetchWithRetry throws when the last
\* attempt was a network failure, and returns the last response, which is
\* not OK, when the last attempt was answered by a status.
C8_ExhaustedOutcome ==
  Exhausted(fw) =>
    /\ Len(fw.outs) = MAX_RETRIES + 1
    /\ LastOut(fw).threw => fw.state = "thrown"
    /\ ~LastOut(fw).threw =>
         /\ fw.state = "returned"
         /\ fw.status = LastOut(fw).status
         /\ ~Ok(fw.status)

\* every attempt was answered 500 and the caller got the last response
C8_Witness ==
  /\ Exhausted(fw)
  /\ \A i \in 1..Len(fw.outs) : fw.outs[i] = Response(500)
  /\ fw.state = "returned"
  /\ fw.status = 500

\* the operations the facade claim lists
DomainOps ==
  {"getUserProfile", "updateUserProfile", "getUserInventory",
   "createGiftCard", "claimGiftCard", "transferGiftCard",
   "setGiftCardSecret"}

\* the operation returned and its request had failed
FailedCall(op) ==
  /\ call.op = op
  /\ call.phase = "done"
  /\ ~Succeeded(fw)

MetaMaskNotLocated(op, w) ==
  IF op = "lib.connectWallet"
  THEN ~getProvider(w, "metamask", Accounts(<<AddrPool[1]>>)).ok
  ELSE ~connectMetaMask(w, Accounts(<<AddrPool[1]>>)).ok

\* the errors that say MetaMask is not installed or must be installed
MetaMaskNotInstalledErrors ==
  { "Please install MetaMask to continue.",
    "MetaMask is not installed. Please install MetaMask to continue." }

\* C11 (as claimed): connectWallet('metamask') in a window where the
\* MetaMask provider cannot be located, nothing injected included, opens the
\* MetaMask install page and fails with an error saying MetaMask is not
\* installed or must be installed.
C11_InstallPageOpened ==
  ( /\ ret.op \in {"lib.connectWallet", "connectWallet"}
    /\ ret.arg = "metamask"
    /\ MetaMaskNotLocated(ret.op, win) ) =>
    /\ ~ret.ok
    /\ ret.opened = "https://metamask.io/download/"
    /\ ret.error \in MetaMaskNotInstalledErrors

\* the wallet's answer when the user rejects the authorization request
UserRejection == ProviderError(4001, "User rejected the request.")

\* what the connector behind `op` does with the wallet's answer
Connector(op, w, walletId, out) ==
  IF op = "lib.connectWallet"
  THEN getProvider(w, walletId, out)
  ELSE connectWallet(w, walletId, out)

\* the connector gets as far as asking the wallet for its accounts
AsksWallet(op, w, walletId) ==
  Connector(op, w, walletId, Accounts(<<AddrPool[1]>>)).ok

\* C12 (as claimed): the error a connect fails with when the user rejects
\* the authorization request (code 4001) is the error of no other failure:
\* no other answer of the wallet makes the same connect fail with it.
C12_RejectionDistinct ==
  ( /\ ret.op \in {"lib.connectWallet", "connectWallet"}
    /\ ~ret.ok
    /\ AsksWallet(ret.op, win, ret.arg)
    /\ ret.error = Connector(ret.op, win, ret.arg, UserRejection).error ) =>
    \A out \in RequestOutcomes :
      ( /\ ~Connector(ret.op, win, ret.arg, out).ok
        /\ Connector(ret.op, win, ret.arg, out).error = ret.error ) =>
      out.kind = "error" /\ out.code = 4001

(***************************************************************************)
(* Properties of the request headers and of authenticatedFetch (SpecApi).  *)
(***************************************************************************)
\* the call builds its request with getAuthHeaders, with authenticatedFetch
\* or with the in-place bearer header of the other revision
SendsAuthorization(c) ==
  /\ c.op \in FacadeOps
  /\ ~(c.op \in {"createGiftCard", "transferGiftCard", "setGiftCardSecret"}
       /\ c.rev = "api")

\* the header carries no bearer credential: it is absent or empty
NoBearer(header) == header \in {null, ""}

\* C13 (as claimed): a request built through getAuthHeaders or
\* authenticatedFetch carries `Authorization: Bearer <token>` with the token
\* that was stored when the request was built, and no bearer credential
\* when no token was stored.
C13_BearerHeader ==
  (SendsAuthorization(call) /\ fw.state # "idle") =>
    /\ fw.token # null => fw.auth = "Bearer " \o fw.token
    /\ fw.token = null => NoBearer(fw.auth)

\* the two formatting errors of handleApiResponse
FormatErrors ==
  { "Server returned an invalid response format. Please check if the API server is running correctly.",
    "Invalid JSON response from server" }

\* C14: authenticatedFetch makes one transport call and never another; when
\* the response is OK but its content type is not application/json, or its
\* JSON body does not parse, the call ends by throwing the formatting error
\* of handleApiResponse.
C14_FormatErrorFatal ==
  call.op = "authenticatedFetch" =>
    /\ Len(fw.outs) <= 1
    /\ fw.delays = 0
    /\ ( /\ call.phase = "done"
         /\ Succeeded(fw)
         /\ ~(JsonContentType(call.body) /\ Parses(call.body)) ) =>
         /\ env.kind = "thrown"
         /\ env.data \in FormatErrors
         /\ Len(fw.outs) = 1

\* an OK answer announced as JSON did not parse and the call threw
C14_Witness ==
  /\ call.op = "authenticatedFetch"
  /\ call.phase = "done"
  /\ Succeeded(fw)
  /\ call.body = "malformed"
  /\ env.kind = "thrown"
  /\ env.data = "Invalid JSON response from server"

(***************************************************************************)
(* Further properties of the session (Spec).                               *)
(***************************************************************************)
\* C15 (as claimed): when connectWallet(walletId) returns an address, the
\* session of that address, walletAddress and a token, is in localStorage.
C15_ConnectWalletStores ==
  (ret.op \in {"lib.connectWallet", "connectWallet"} /\ ret.ok) =>
    /\ getItem(ls, "walletAddress") = ret.value
    /\ getItem(ls, "token") # null

C17_SessionPersists ==
  ret.reloaded =>
    /\ StoredSession =>
         address = getItem(ls, "walletAddress") /\ isConnected
    /\ getItem(ls, "walletAddress") = null =>
         address = null /\ ~isConnected

\* a plain reload over a stored session came back connected
C17_Witness ==
  /\ ret.op = "reload"
  /\ StoredSession
  /\ address = getItem(ls, "walletAddress")
  /\ isConnected

(***************************************************************************)
(* Properties of useUserData (SpecHook).                                   *)
(***************************************************************************)
\* C18 (as claimed): when any of the profile, inventory and activity calls
\* of a run fails, the run is aborted: profile, inventory and activities
\* keep their values, error is set and isLoading becomes false.
C18_FailureAborts ==
  [][ ( /\ Len(hook'.rounds) < Len(hook.rounds)
        /\ hook'.last.failed ) =>
        /\ hook'.userData.profile = hook.userData.profile
        /\ hook'.userData.inventory = hook.userData.inventory
        /\ hook'.userData.activities = hook.userData.activities
        /\ hook'.userData.error # null
        /\ ~hook'.userData.isLoading ]_vars

\* C19: a run that settles writes its result into userData whether or not
\* its address is still the address of the hook: the data held is that of
\* the run that settled last, so a superseded run settling after the newer
\* one leaves data of an address other than the current one.
C19_NoCancellation ==
  (hook.last.addr # "" /\ ~hook.last.aborted) =>
    /\ hook.userData.profile.for = hook.last.addr
    /\ hook.userData.inventory.for = hook.last.addr
    /\ hook.userData.activities.for = hook.last.addr

\* the run of the previous address settled after the run of the current
\* one: nothing is in flight and the data is not that of the current address
C19_Witness ==
  /\ Truthy(hook.address)
  /\ hook.rounds = <<>>
  /\ ~hook.userData.isLoading
  /\ hook.userData.error = null
  /\ hook.last.addr # hook.address
  /\ hook.userData.profile.for = hook.last.addr
  /\ hook.userData.inventory.for # hook.address

(***************************************************************************)
(* Properties of two tabs on one localStorage (SpecTabs).                  *)
(***************************************************************************)
\* C20 (as claimed): when two tabs have each completed a connect, for
\* different addresses, the stored walletAddress and token are those of the
\* tab that wrote last.
C20_LastWriterWins ==
  ( /\ \A t \in Tabs : tabs.procs[t].pc = "done"
    /\ tabs.procs["tab1"].addr # tabs.procs["tab2"].addr ) =>
    /\ getItem(ls, "walletAddress") = tabs.procs[tabs.last].addr
    /\ getItem(ls, "token") = tabs.procs[tabs.last].token

(***************************************************************************)
(* Properties of the provider locator (SpecLocator).                       *)
(***************************************************************************)
\* what the locator is to return in window w: window.ethereum or the first
\* provider of the list with the MetaMask flag and without the Coinbase
\* flag; failing that the first provider named MetaMask; failing that
\* nothing; and never a provider with the Coinbase flag
LocatorRule(w, r) ==
  LET pureTop == w.hasEthereum /\ w.ethereum.isMetaMask
                   /\ ~w.ethereum.isCoinbaseWallet
      pure == "isMetaMask && !isCoinbaseWallet"
      named == "MetaMask name or id"
  IN /\ r.found => ~r.provider.isCoinbaseWallet
     /\ pureTop => r = FoundProvider(TopProvider(w))
     /\ (~pureTop /\ SomeProvider(w, pure)) => r = FindProvider(w, pure)
     /\ (~pureTop /\ ~SomeProvider(w, pure) /\ SomeProvider(w, named)) =>
          r = FindProvider(w, named)
     /\ (~pureTop /\ ~SomeProvider(w, pure) /\ ~SomeProvider(w, named)) =>
          ~r.found

\* connectMetaMask got as far as choosing its provider
ChoosesProvider(w) == isMetaMaskInstalled(w) /\ w.hasEthereum

\* C21 (as claimed): in every window the MetaMask locator returns the first
\* provider with the MetaMask flag and without the Coinbase flag, falls
\* back to the name/id match, returns null when nothing matches and never
\* yields a provider with the Coinbase flag; and the provider connectMetaMask
\* uses obeys the same rule.
C21_MetaMaskLocator ==
  /\ ret.op = "getMetaMaskProvider" =>
       LocatorRule(win, getMetaMaskProvider(win))
  /\ (ret.op = "connectWallet" /\ ret.arg = "metamask"
        /\ ChoosesProvider(win)) =>
       LocatorRule(win, MetaMaskConnectProvider(win))

\* C29 (as claimed): in every window where isMetaMaskInstalled() is true,
\* connectMetaMask finds a provider and asks it for the accounts.
C29_DetectionAgrees ==
  (ret.op = "connectWallet" /\ ret.arg = "metamask"
     /\ isMetaMaskInstalled(win)) =>
    /\ ret.error # "MetaMask provider not found"
    /\ AsksWallet("connectWallet", win, "metamask")

(***************************************************************************)
(* Properties of fetchWithRetry under fair scheduling (SpecRetry).         *)
(***************************************************************************)
\* the attempts of f that ended in a network error / in an HTTP failure
NetworkErrors(f) == {i \in 1..Len(f.outs) : f.outs[i].threw}

HttpFailures(f) ==
  {i \in 1..Len(f.outs) :
     ~f.outs[i].threw /\ ~Ok(f.outs[i].status) /\ f.outs[i].status # 404}

\* the attempts of f that were followed by a retry
Retried(f) == 1..(Len(f.outs) - (IF Settled(f) THEN 1 ELSE 0))

\* at most MAX_RETRIES + 1 attempts; every retried attempt was a network
\* error or an HTTP failure; each retry took one unit of the one budget and
\* came after one delay (the delay of the last failure may be running); the
\* first 2xx or 404 response is the last attempt and is what is returned
RetryBudget(f) ==
  /\ Len(f.outs) <= MAX_RETRIES + 1
  /\ Retried(f) \subseteq NetworkErrors(f) \cup HttpFailures(f)
  /\ f.retries = MAX_RETRIES - f.delays
  /\ f.retries >= 0
  /\ f.delays = Cardinality(Retried(f))
                  - (IF f.state = "delaying" THEN 1 ELSE 0)
  /\ \A i \in 1..Len(f.outs) :
       (~f.outs[i].threw /\ (Ok(f.outs[i].status) \/ f.outs[i].status = 404))
         => /\ i = Len(f.outs)
            /\ f.state = "returned"
            /\ f.status = f.outs[i].status

\* C22: fetchWithRetry terminates whatever its attempts give: a started
\* request is eventually returned or thrown, after at most MAX_RETRIES + 1
\* attempts; network errors and HTTP failures draw on one budget of
\* MAX_RETRIES; a delay precedes every retry; the first 2xx or 404 response
\* ends it.
C22_RetryTerminates ==
  /\ [](fw.mode = "retry" => RetryBudget(fw))
  /\ (fw.mode = "retry" /\ ~Settled(fw)) ~> Settled(fw)

\* a request that ended after a network error, an HTTP failure and a delay
\* before each retry, on a 2xx response
C22_Witness ==
  /\ fw.mode = "retry"
  /\ fw.state = "returned"
  /\ Ok(fw.status)
  /\ NetworkErrors(fw) # {}
  /\ HttpFailures(fw) # {}
  /\ fw.delays = 2

C24_CreateBeforeProfile ==
  /\ [](call.op = "getUserProfile" =>
          /\ call.phase = "create" => call.created = ""
          /\ call.phase \in {"main", "done"} =>
               call.created \in {"ok", "failed"}
          /\ (call.phase = "create" /\ Settled(fw)) => ENABLED UserCreated)
  /\ [][(call.phase = "create" /\ call'.phase # "create") =>
          /\ Settled(fw)
          /\ call'.phase = "main"
          /\ call'.created = Creation(fw)
          /\ fw'.state = "fetching"
          /\ fw'.outs = <<>>]_vars

\* the profile request got an answer after a creation that had failed, all
\* its attempts used
C24_Witness ==
  /\ call.op = "getUserProfile"
  /\ call.phase = "main"
  /\ call.created = "failed"
  /\ Len(fw.outs) > 0

(***************************************************************************)
(* Properties of the stored session under wallet events (Spec).            *)
(***************************************************************************)
\* C25 (as claimed): whenever the WalletProvider reports isConnected,
\* localStorage holds a token.
C25_ConnectedHasToken ==
  isConnected => Truthy(getItem(ls, "token"))

\* the tokens WalletContext.connect writes
Web3AuthTokens == {Web3AuthToken(a) : a \in Addr}

\* C26 (as claimed): whenever a token written by WalletContext.connect and a
\* walletAddress are both stored, the token is 'web3auth_' followed by the
\* stored walletAddress.
C26_TokenMatchesAddress ==
  (getItem(ls, "token") \in Web3AuthTokens
     /\ Truthy(getItem(ls, "walletAddress"))) =>
    getItem(ls, "token") = Web3AuthToken(getItem(ls, "walletAddress"))

(***************************************************************************)
(* Properties of the route guard (Spec).                                   *)
(***************************************************************************)
\* the pages behind the guard
ProtectedElements == {"Index", "CreateGift", "Profile"}

\* C27: a page behind ProtectedRoute is rendered only when localStorage
\* holds a token as the route renders; without one every protected path,
\* '/' and '/profile' among them, is redirected to /login.
C27_ProtectedRoute ==
  ret.op = "render" =>
    /\ ret.value \in ProtectedElements => Truthy(getItem(ls, "token"))
    /\ (ret.arg \in ProtectedPaths /\ ~Truthy(getItem(ls, "token"))) =>
         ~ret.ok /\ ret.value = "Login"
    /\ (ret.arg \in ProtectedPaths /\ Truthy(getItem(ls, "token"))) =>
         ret.ok /\ ret.value \in ProtectedElements

\* /profile was asked for with a walletAddress stored and no token, and the
\* login page came up
C27_Witness ==
  /\ ret.op = "render"
  /\ ret.arg = "/profile"
  /\ ~ret.ok
  /\ ret.value = "Login"
  /\ Truthy(getItem(ls, "walletAddress"))

(***************************************************************************)
(* Properties of createUserIfNotExists (SpecRetry).                        *)
(***************************************************************************)
\* the request in flight is the POST /users/create of createUserIfNotExists
CreatingUser ==
  \/ call.op = "createUserIfNotExists" /\ call.phase = "main"
  \/ call.op = "getUserProfile" /\ call.phase = "create"

\* C28 (as claimed): a 409 answer to POST /users/create is final: no further
\* attempt follows it, and createUserIfNotExists reports success.
C28_ConflictIsFinal ==
  /\ CreatingUser =>
       \A i \in 1..Len(fw.outs) :
         (~fw.outs[i].threw /\ fw.outs[i].status = 409) =>
           /\ i = Len(fw.outs)
           /\ fw.state = "returned"
           /\ createUserIfNotExists(fw).success
  /\ (/\ call.op = "createUserIfNotExists"
      /\ call.phase = "done"
      /\ \E i \in 1..Len(fw.outs) :
           ~fw.outs[i].threw /\ fw.outs[i].status = 409) =>
       env.success /\ Len(fw.outs) = 1

(***************************************************************************)
(* Properties of the chat history (SpecAgent).                             *)
(***************************************************************************)
\* sendMessage resumed and appended the agent's reply
ReplyAppended ==
  /\ agent.pending.active
  /\ ~agent'.pending.active
  /\ Len(agent'.messages) = Len(agent.messages) + 1

\* C30 (as claimed): whenever sendMessage appends an agent reply, the last
\* message of the history is the user message that asked for it, and the
\* reply was made in the mode the chat shows as it is appended.
C30_ReplyFollowsQuestion ==
  [][ReplyAppended =>
       /\ Len(agent.messages) > 0
       /\ agent.messages[Len(agent.messages)] =
            Message(agent.pending.input, "user")
       /\ agent'.isOfflineMode = agent.pending.offline]_vars

====
